---- MODULE Spec2Model ----
(***************************************************************************)
(* Decision layer of churn_ev: cost model, single-threshold policy,        *)
(* threshold evaluator, threshold sweep and optimum selection.             *)
(*                                                                         *)
(* Numbers.  Probabilities, thresholds and sweep steps are exact multiples *)
(* of 1/Scale, held as integers (1.0 is Scale).  Costs and expected values *)
(* are multiples of 0.5, held as integers (0.5 is 1, so the default        *)
(* FN_cost 5.0 is 10).  Comparisons and sums of such values are exact in   *)
(* the program's float arithmetic as well.                                 *)
(***************************************************************************)
EXTENDS Integers, Sequences, FiniteSets, TLC

VARIABLES
    entry,      \* the entry point this run calls
    y_true,     \* labels handed to the evaluator / the sweep
    y_prob,     \* probabilities handed to the evaluator / the sweep / the batch policy
    costs,      \* the CostConfig in use
    ev_call,    \* expected_value_for_threshold: its threshold and what it returned
    curve,      \* sweep_thresholds: its step and the DataFrame (or error) it returned
    best,       \* choose_optimal_threshold(curve): the summary (or error)
    decision,   \* decide_single_threshold: its arguments and what it returned
    tiered,     \* decide_tiered: its arguments and what it returned
    batch,      \* apply_decision_batch: its threshold and the DataFrame it returned
    from_d,     \* CostConfig.from_dict: the mapping it was given and what it returned
    loaded,     \* load_costs: the CostConfig (or error) it returned
    fs,         \* the output directory and its files
    run,        \* the sweep script: idle, done or failed
    par,        \* a parallel sweep: the order the workers finished in and what was gathered
    served,     \* choose_action_and_ev: its arguments and what it returned
    reports,    \* the reports directory of auto_drift.py
    pruned,     \* prune_reports: its arguments, the directory before and what it returned
    last,       \* the most recent export: its kind, its path, what it was given and what was at the path
    hist        \* a session: the calls of sweep_thresholds and choose_optimal_threshold made so far

vars == <<entry, y_true, y_prob, costs, ev_call, curve, best, decision,
         tiered, batch, from_d, loaded, fs, run, par, served, reports,
         pruned, last, hist>>

----------------------------------------------------------------------------
(* Bounds of the model *)

Scale == 10         \* grid resolution: probability 1.0 is Scale units
MaxLen == 2         \* longest label / probability vector
MaxGrid == 3        \* largest grid handed to parallel workers
MaxReports == 3     \* most HTML reports in the reports directory
MaxCalls == 3       \* most calls in one session of sweeps and selections

Labels == {0, 1}
ProbGrid == 0..Scale
\* probabilities of the datasets: both ends of [0, 1], their neighbours, the middle
DataProbs == {0, 1, Scale \div 2, Scale - 1, Scale}
ThrVals == (0 - 1)..(Scale + 1)
StepVals == (0 - Scale - 2)..(Scale + 2)

SeqsUpTo(S, n) == UNION {[1..k -> S] : k \in 0..n}

\* a function that has not been called, a result that does not exist
NoCall == [status |-> "none"]

----------------------------------------------------------------------------
(* src/decision/costs.py *)

DefaultCosts ==
    [FN_cost |-> 10, FP_cost |-> 2, TP_intervention_cost |-> 1, TN_cost |-> 0]

AltCosts ==
    [FN_cost |-> 3, FP_cost |-> 4, TP_intervention_cost |-> 2, TN_cost |-> 1]

CostConfigs == {DefaultCosts, AltCosts}

CostFields == {"FN_cost", "FP_cost", "TP_intervention_cost", "TN_cost"}

\* keys and values of the mappings handed to CostConfig.from_dict: the four
\* fields and one key that is not a field
DictKeys == CostFields \cup {"currency"}
DictVals == {7, 8}
Mappings == UNION {[K -> DictVals] : K \in SUBSET DictKeys}

\* d.get(key, default); float() of a number keeps its value
get(d, key, default) == IF key \in DOMAIN d THEN d[key] ELSE default

\* variant: d[key] for every field, a missing key raises KeyError
from_dict_strict(d) ==
    IF CostFields \subseteq DOMAIN d
    THEN [status |-> "ok", cfg |-> [k \in CostFields |-> d[k]]]
    ELSE [status |-> "error", error |-> "KeyError"]

\* variant: the intervention cost looked up under the key of api/main.py
from_dict_apikey(d) ==
    [status |-> "ok",
     cfg |-> [FN_cost |-> get(d, "FN_cost", 10),
              FP_cost |-> get(d, "FP_cost", 2),
              TP_intervention_cost |-> get(d, "true_positive_intervention", 1),
              TN_cost |-> get(d, "TN_cost", 0)]]

\* CostConfig.from_dict
from_dict(d) ==
    [status |-> "ok",
     cfg |-> [FN_cost |-> get(d, "FN_cost", 10),
              FP_cost |-> get(d, "FP_cost", 2),
              TP_intervention_cost |-> get(d, "TP_intervention_cost", 1),
              TN_cost |-> get(d, "TN_cost", 0)]]

----------------------------------------------------------------------------
(* src/utils/io.py *)

\* The output directory and the files in it.  A file is Absent or holds the
\* content last written to it.
Paths == {"decision_curve.png", "decision_curve.csv", "config.json", "costs.json"}
Absent == [kind |-> "absent"]
EmptyFS == [outdir |-> FALSE, files |-> [p \in Paths |-> Absent]]

Abs(v) == IF v < 0 THEN 0 - v ELSE v

\* A number as json.dump / to_csv write it: sign, integer part and fractional
\* part, for a value held as v units of 1/unit (5.0 is "5.0", 0.5 is "0.5").
fmt_num(v, unit) ==
    [neg |-> v < 0, whole |-> Abs(v) \div unit, part |-> Abs(v) % unit,
     unit |-> unit]

\* the number json.load reads from such a text
parse_num(t) == (IF t.neg THEN 0 - 1 ELSE 1) * (t.whole * t.unit + t.part)

\* dataclasses.asdict(cfg): the four fields by name
asdict(c) == [k \in CostFields |-> c[k]]

\* json.dump of a flat dict of numbers (unit: the denominator of its values):
\* one member per key
json_dump(d, unit) == {<<k, fmt_num(d[k], unit)>> : k \in DOMAIN d}

\* json.load of such an object
json_load(text) ==
    [k \in {m[1] : m \in text} |->
        parse_num((CHOOSE m \in text : m[1] = k)[2])]

\* variant: the file opened with "x", so an existing file is left as it is
save_json_exclusive(fs0, text, path) ==
    IF fs0.files[path] # Absent
    THEN fs0
    ELSE [outdir |-> TRUE,
          files |-> [fs0.files EXCEPT ![path] = [kind |-> "json", text |-> text]]]

\* ensure_dir(p.parent), then the file opened with "w" and written
save_json(fs0, text, path) ==
    [outdir |-> TRUE,
     files |-> [fs0.files EXCEPT ![path] = [kind |-> "json", text |-> text]]]

load_json(fs0, path) ==
    IF fs0.files[path] = Absent
    THEN [status |-> "error", error |-> "FileNotFoundError"]
    ELSE [status |-> "ok", obj |-> json_load(fs0.files[path].text)]

\* src/decision/costs.py: save_costs, load_costs
save_costs(fs0, cfg, path) == save_json(fs0, json_dump(asdict(cfg), 2), path)

load_costs(fs0, path) ==
    LET d == load_json(fs0, path)
    IN  IF d.status = "error" THEN d ELSE from_dict(d.obj)

----------------------------------------------------------------------------
(* src/decision/policy.py *)

\* variant: the unit value taken from FP_cost
unit_expected_value_intervene_fp(c) == 0 - c.FP_cost

unit_expected_value_intervene(c) == 0 - c.TP_intervention_cost

unit_expected_value_no_action == 0

\* variant: open lower bound (p > thr)
decide_single_threshold_strict(p, thr, c) ==
    IF p > thr
    THEN [action |-> "intervene", ev |-> unit_expected_value_intervene(c)]
    ELSE [action |-> "no_action", ev |-> unit_expected_value_no_action]

decide_single_threshold(p, thr, c) ==
    IF p >= thr
    THEN [action |-> "intervene", ev |-> unit_expected_value_intervene(c)]
    ELSE [action |-> "no_action", ev |-> unit_expected_value_no_action]

\* variant: the lower band tested first
decide_tiered_lowfirst(p, t_low, t_high, costs_low, costs_high) ==
    IF p >= t_low
    THEN [action |-> "cheap_intervention",
          ev |-> unit_expected_value_intervene(costs_low)]
    ELSE IF p >= t_high
    THEN [action |-> "expensive_intervention",
          ev |-> unit_expected_value_intervene(costs_high)]
    ELSE [action |-> "no_action", ev |-> unit_expected_value_no_action]

\* variant: the no_action band tested first, p < t_low
decide_tiered_lowguard(p, t_low, t_high, costs_low, costs_high) ==
    IF p < t_low
    THEN [action |-> "no_action", ev |-> unit_expected_value_no_action]
    ELSE IF p >= t_high
    THEN [action |-> "expensive_intervention",
          ev |-> unit_expected_value_intervene(costs_high)]
    ELSE [action |-> "cheap_intervention",
          ev |-> unit_expected_value_intervene(costs_low)]

decide_tiered(p, t_low, t_high, costs_low, costs_high) ==
    IF p >= t_high
    THEN [action |-> "expensive_intervention",
          ev |-> unit_expected_value_intervene(costs_high)]
    ELSE IF p >= t_low
    THEN [action |-> "cheap_intervention",
          ev |-> unit_expected_value_intervene(costs_low)]
    ELSE [action |-> "no_action", ev |-> unit_expected_value_no_action]

\* variant: open lower bound (probs > thr) in both np.where calls
apply_decision_batch_strict(probs, thr, c) ==
    LET ev_if_intervene == 0 - c.TP_intervention_cost
    IN  [i \in 1..Len(probs) |->
            [prob |-> probs[i],
             action |-> IF probs[i] > thr THEN "intervene" ELSE "no_action",
             ev |-> IF probs[i] > thr THEN ev_if_intervene ELSE 0]]

\* the rows of the returned DataFrame: columns prob, action, ev built by two
\* np.where(probs >= thr, ...) over the array of probabilities
apply_decision_batch(probs, thr, c) ==
    LET ev_if_intervene == 0 - c.TP_intervention_cost
    IN  [i \in 1..Len(probs) |->
            [prob |-> probs[i],
             action |-> IF probs[i] >= thr THEN "intervene" ELSE "no_action",
             ev |-> IF probs[i] >= thr THEN ev_if_intervene ELSE 0]]

----------------------------------------------------------------------------
(* src/decision/thresholds.py *)

\* variant: open lower bound (y_prob > thr)
y_pred_strict(yp, thr) == [i \in 1..Len(yp) |-> IF yp[i] > thr THEN 1 ELSE 0]

\* variant: the comparison turned round (y_prob <= thr)
y_pred_inverted(yp, thr) == [i \in 1..Len(yp) |-> IF yp[i] <= thr THEN 1 ELSE 0]

\* y_pred = (y_prob >= thr).astype(int)
y_pred(yp, thr) == [i \in 1..Len(yp) |-> IF yp[i] >= thr THEN 1 ELSE 0]

\* number of samples with true label a and predicted label b
CellCount(yt, yd, a, b) ==
    Cardinality({i \in 1..Len(yt) : yt[i] = a /\ yd[i] = b})

\* variant: the fn cell read from the tp cell
confusion_matrix_dup(yt, yd) ==
    IF Len(yt) # Len(yd)
    THEN [status |-> "error", error |-> "ValueError"]
    ELSE [status |-> "ok",
          tn |-> CellCount(yt, yd, 0, 0), fp |-> CellCount(yt, yd, 0, 1),
          fn |-> CellCount(yt, yd, 1, 1), tp |-> CellCount(yt, yd, 1, 1)]

\* variant: vectors of different lengths cut to the shorter one
confusion_matrix_zip(yt, yd) ==
    LET n == IF Len(yt) < Len(yd) THEN Len(yt) ELSE Len(yd)
        cell(a, b) == Cardinality({i \in 1..n : yt[i] = a /\ yd[i] = b})
    IN  [status |-> "ok", tn |-> cell(0, 0), fp |-> cell(0, 1),
         fn |-> cell(1, 0), tp |-> cell(1, 1)]

\* variant: labels=[0, 1] left out, so the matrix has one row and column per
\* class present and unpacking four counts fails unless both are present
confusion_matrix_nolabels(yt, yd) ==
    IF Len(yt) # Len(yd)
    THEN [status |-> "error", error |-> "ValueError"]
    ELSE IF Cardinality({yt[i] : i \in 1..Len(yt)} \cup {yd[i] : i \in 1..Len(yd)}) # 2
    THEN [status |-> "error", error |-> "ValueError: unpack"]
    ELSE [status |-> "ok",
          tn |-> CellCount(yt, yd, 0, 0), fp |-> CellCount(yt, yd, 0, 1),
          fn |-> CellCount(yt, yd, 1, 0), tp |-> CellCount(yt, yd, 1, 1)]

\* sklearn confusion_matrix(y_true, y_pred, labels=[0, 1]).ravel():
\* inconsistent lengths raise ValueError; an empty y_true gives the all-zero
\* matrix; otherwise cell (a, b) counts the samples with label a predicted b.
confusion_matrix(yt, yd) ==
    IF Len(yt) # Len(yd)
    THEN [status |-> "error", error |-> "ValueError"]
    ELSE [status |-> "ok",
          tn |-> CellCount(yt, yd, 0, 0), fp |-> CellCount(yt, yd, 0, 1),
          fn |-> CellCount(yt, yd, 1, 0), tp |-> CellCount(yt, yd, 1, 1)]

\* variant: FP_cost and FN_cost applied to each other's count
expected_value_for_threshold_swapped(yt, yp, thr, c) ==
    LET cm == confusion_matrix(yt, y_pred(yp, thr))
    IN  IF cm.status = "error" THEN cm
        ELSE LET total_cost == cm.tp * c.TP_intervention_cost
                               + cm.fp * c.FN_cost
                               + cm.fn * c.FP_cost
                               + cm.tn * c.TN_cost
             IN  [status |-> "ok", ev |-> 0 - total_cost,
                  tn |-> cm.tn, fp |-> cm.fp, fn |-> cm.fn, tp |-> cm.tp]

expected_value_for_threshold(yt, yp, thr, c) ==
    LET cm == confusion_matrix(yt, y_pred(yp, thr))
    IN  IF cm.status = "error" THEN cm
        ELSE LET total_cost == cm.tp * c.TP_intervention_cost
                               + cm.fp * c.FP_cost
                               + cm.fn * c.FN_cost
                               + cm.tn * c.TN_cost
             IN  [status |-> "ok", ev |-> 0 - total_cost,
                  tn |-> cm.tn, fp |-> cm.fp, fn |-> cm.fn, tp |-> cm.tp]

\* ceil(a / b) for b # 0
CeilDiv(a, b) ==
    LET n == IF b < 0 THEN 0 - a ELSE a
        d == IF b < 0 THEN 0 - b ELSE b
    IN  0 - ((0 - n) \div d)

\* np.arange(0.0, 1.0 + step, step): ceil((1.0 + step) / step) values
\* 0, step, 2*step, ... (none when that length is not positive); a zero step
\* divides by zero.
arange_len(step) ==
    LET n == CeilDiv(Scale + step, step) IN IF n > 0 THEN n ELSE 0

\* variant: the grid laid out from 1.0 downwards
thrs_desc(step) == [i \in 1..arange_len(step) |-> Scale - (i - 1) * step]

thrs(step) == [i \in 1..arange_len(step) |-> (i - 1) * step]

\* variant: each row put in front of the rows collected so far
sweep_thresholds_prepend(yt, yp, c, step) ==
    IF step = 0
    THEN [status |-> "error", error |-> "arange: zero step"]
    ELSE LET ts == thrs(step)
             n == Len(ts)
             res == [i \in 1..n |->
                        expected_value_for_threshold(yt, yp, ts[i], c)]
         IN  IF \E i \in 1..n : res[i].status = "error"
             THEN [status |-> "error", error |-> "ValueError"]
             ELSE [status |-> "ok",
                   rows |-> [i \in 1..n |->
                               [threshold |-> ts[n + 1 - i],
                                expected_value |-> res[n + 1 - i].ev,
                                tn |-> res[n + 1 - i].tn, fp |-> res[n + 1 - i].fp,
                                fn |-> res[n + 1 - i].fn, tp |-> res[n + 1 - i].tp]]]

\* variant: the list `rows` kept at module level and never emptied, so a
\* call returns the rows of the sweeps before it in the session followed by
\* its own
sweep_thresholds_shared(yt, yp, c, step) ==
    LET ts == thrs(step)
        res == [i \in 1..Len(ts) |->
                   expected_value_for_threshold(yt, yp, ts[i], c)]
        own == [i \in 1..Len(ts) |->
                   LET r == res[i]
                   IN  [threshold |-> ts[i], expected_value |-> r.ev,
                        tn |-> r.tn, fp |-> r.fp, fn |-> r.fn, tp |-> r.tp]]
        earlier == SelectSeq(hist, LAMBDA h : h.fn = "sweep_thresholds")
    IN  IF step = 0
        THEN [status |-> "error", error |-> "arange: zero step"]
        ELSE IF \E i \in 1..Len(ts) : res[i].status = "error"
        THEN [status |-> "error", error |-> "ValueError"]
        ELSE [status |-> "ok",
              rows |-> IF earlier = << >> THEN own
                       ELSE earlier[Len(earlier)].out.rows \o own]

\* variant: each row carries the result of the grid point after its own
\* (the last row its own)
sweep_thresholds_shifted(yt, yp, c, step) ==
    IF step = 0
    THEN [status |-> "error", error |-> "arange: zero step"]
    ELSE LET ts == thrs(step)
             n == Len(ts)
             res == [i \in 1..n |->
                        expected_value_for_threshold(yt, yp, ts[i], c)]
         IN  IF \E i \in 1..n : res[i].status = "error"
             THEN [status |-> "error", error |-> "ValueError"]
             ELSE [status |-> "ok",
                   rows |-> [i \in 1..n |->
                               LET r == res[IF i < n THEN i + 1 ELSE i]
                               IN  [threshold |-> ts[i],
                                    expected_value |-> r.ev,
                                    tn |-> r.tn, fp |-> r.fp,
                                    fn |-> r.fn, tp |-> r.tp]]]

sweep_thresholds(yt, yp, c, step) ==
    IF step = 0
    THEN [status |-> "error", error |-> "arange: zero step"]
    ELSE LET ts == thrs(step)
             res == [i \in 1..Len(ts) |->
                        expected_value_for_threshold(yt, yp, ts[i], c)]
         IN  IF \E i \in 1..Len(ts) : res[i].status = "error"
             THEN [status |-> "error", error |-> "ValueError"]
             ELSE [status |-> "ok",
                   rows |-> [i \in 1..Len(ts) |->
                               LET r == res[i]
                               IN  [threshold |-> ts[i],
                                    expected_value |-> r.ev,
                                    tn |-> r.tn, fp |-> r.fp,
                                    fn |-> r.fn, tp |-> r.tp]]]

\* variant: the last occurrence of the maximum
idxmax_last(rows) ==
    CHOOSE i \in 1..Len(rows) :
        /\ \A j \in 1..Len(rows) : rows[j].expected_value <= rows[i].expected_value
        /\ \A j \in (i + 1)..Len(rows) : rows[j].expected_value < rows[i].expected_value

\* Series.idxmax(): label of the first occurrence of the maximum
idxmax(rows) ==
    CHOOSE i \in 1..Len(rows) :
        /\ \A j \in 1..Len(rows) : rows[j].expected_value <= rows[i].expected_value
        /\ \A j \in 1..(i - 1) : rows[j].expected_value < rows[i].expected_value

\* variant: no emptiness check, an empty curve gives an all-zero summary
choose_optimal_threshold_nocheck(rows) ==
    IF Len(rows) = 0
    THEN [status |-> "ok", threshold |-> 0, expected_value |-> 0,
          tn |-> 0, fp |-> 0, fn |-> 0, tp |-> 0]
    ELSE LET row == rows[idxmax(rows)]
         IN  [status |-> "ok",
              threshold |-> row.threshold,
              expected_value |-> row.expected_value,
              tn |-> row.tn, fp |-> row.fp, fn |-> row.fn, tp |-> row.tp]

choose_optimal_threshold(rows) ==
    IF Len(rows) = 0
    THEN [status |-> "error", error |-> "ValueError: df_curve is empty"]
    ELSE LET row == rows[idxmax(rows)]
         IN  [status |-> "ok",
              threshold |-> row.threshold,
              expected_value |-> row.expected_value,
              tn |-> row.tn, fp |-> row.fp, fn |-> row.fn, tp |-> row.tp]

----------------------------------------------------------------------------
(* src/decision/report.py *)

\* plot_decision_curve: the parent directory made, then the image of the
\* line through (threshold, expected_value) saved
plot_decision_curve(fs0, rows, path) ==
    [outdir |-> TRUE,
     files |-> [fs0.files EXCEPT ![path] =
                   [kind |-> "png",
                    x |-> [i \in 1..Len(rows) |-> rows[i].threshold],
                    y |-> [i \in 1..Len(rows) |-> rows[i].expected_value]]]]

\* export_curve_csv: the parent directory made, then df_curve.to_csv(index=False)
export_curve_csv(fs0, rows, path) ==
    [outdir |-> TRUE,
     files |-> [fs0.files EXCEPT ![path] =
                   [kind |-> "csv",
                    header |-> <<"threshold", "expected_value", "tn", "fp", "fn", "tp">>,
                    lines |-> [i \in 1..Len(rows) |->
                                 LET r == rows[i]
                                 IN  <<fmt_num(r.threshold, Scale),
                                       fmt_num(r.expected_value, 2),
                                       fmt_num(r.tn, 1), fmt_num(r.fp, 1),
                                       fmt_num(r.fn, 1), fmt_num(r.tp, 1)>>]]]]

----------------------------------------------------------------------------
(* src/scripts/run_threshold_sweep.py *)

\* json.dump of the summary dict: threshold and expected_value are floats,
\* the four counts ints
dump_summary(summary) ==
    {<<"threshold", fmt_num(summary.threshold, Scale)>>,
     <<"expected_value", fmt_num(summary.expected_value, 2)>>,
     <<"tn", fmt_num(summary.tn, 1)>>, <<"fp", fmt_num(summary.fp, 1)>>,
     <<"fn", fmt_num(summary.fn, 1)>>, <<"tp", fmt_num(summary.tp, 1)>>}

\* variant: FN_cost and FP_cost crossed in the hand-written costs dict
config_json_crossed(c, summary) ==
    [model_version |-> "v1",
     generated_at |-> "utcnow_iso()",
     costs |-> json_dump([FN_cost |-> c.FP_cost, FP_cost |-> c.FN_cost,
                          TP_intervention_cost |-> c.TP_intervention_cost,
                          TN_cost |-> c.TN_cost], 2),
     decision |-> dump_summary(summary)]

\* the text of config.json: the config dict of main(), dumped
config_json(c, summary) ==
    [model_version |-> "v1",
     generated_at |-> "utcnow_iso()",
     costs |-> json_dump([FN_cost |-> c.FN_cost, FP_cost |-> c.FP_cost,
                          TP_intervention_cost |-> c.TP_intervention_cost,
                          TN_cost |-> c.TN_cost], 2),
     decision |-> dump_summary(summary)]

\* variant: the plot and the CSV written right after the sweep, before the
\* selection
main_export_first(fs0, yt, yp, c, step) ==
    LET fs1 == [fs0 EXCEPT !.outdir = TRUE]
        df_curve == sweep_thresholds(yt, yp, c, step)
    IN  IF df_curve.status # "ok"
        THEN [run |-> "failed", df_curve |-> df_curve, summary |-> NoCall,
              fs |-> fs1]
        ELSE LET fs2 == plot_decision_curve(fs1, df_curve.rows, "decision_curve.png")
                 fs3 == export_curve_csv(fs2, df_curve.rows, "decision_curve.csv")
                 summary == choose_optimal_threshold(df_curve.rows)
             IN  IF summary.status # "ok"
                 THEN [run |-> "failed", df_curve |-> df_curve,
                       summary |-> summary, fs |-> fs3]
                 ELSE [run |-> "done", df_curve |-> df_curve,
                       summary |-> summary,
                       fs |-> save_costs(save_json(fs3, config_json(c, summary),
                                                   "config.json"),
                                         c, "costs.json")]

\* main() from ensure_dir(outdir) to the end: the sweep and the selection,
\* then the four artifacts; an exception of the sweep or of the selection
\* ends the run before any artifact is written.
main(fs0, yt, yp, c, step) ==
    LET fs1 == [fs0 EXCEPT !.outdir = TRUE]
        df_curve == sweep_thresholds(yt, yp, c, step)
        summary == IF df_curve.status = "ok"
                   THEN choose_optimal_threshold(df_curve.rows)
                   ELSE NoCall
    IN  IF df_curve.status = "ok" /\ summary.status = "ok"
        THEN LET fs2 == plot_decision_curve(fs1, df_curve.rows, "decision_curve.png")
                 fs3 == export_curve_csv(fs2, df_curve.rows, "decision_curve.csv")
                 fs4 == save_json(fs3, config_json(c, summary), "config.json")
                 fs5 == save_costs(fs4, c, "costs.json")
             IN  [run |-> "done", df_curve |-> df_curve, summary |-> summary,
                  fs |-> fs5]
        ELSE [run |-> "failed", df_curve |-> df_curve, summary |-> summary,
              fs |-> fs1]

----------------------------------------------------------------------------
(* src/scripts/auto_drift.py.  The reports directory is the list of its   *)
(* *.html files in glob order, each with a name and a modification time.  *)

\* modification times; equal times happen
MTimes == {1, 2, 3}

NoReportsDir == [exists |-> FALSE, files |-> << >>]

\* the reports directories: none, or one with up to MaxReports reports
ReportDirs ==
    {NoReportsDir} \cup
    {[exists |-> TRUE, files |-> [i \in 1..Len(ms) |-> [name |-> i, mtime |-> ms[i]]]] :
        ms \in SeqsUpTo(MTimes, MaxReports)}

\* variant: oldest first (reverse=True left out)
list_reports_oldest_first(rd) ==
    IF ~rd.exists
    THEN << >>
    ELSE LET fl == rd.files
             n == Len(fl)
             rank(i) == Cardinality({j \in 1..n :
                            \/ fl[j].mtime < fl[i].mtime
                            \/ fl[j].mtime = fl[i].mtime /\ j < i}) + 1
         IN  [k \in 1..n |-> fl[CHOOSE i \in 1..n : rank(i) = k]]

\* list_reports: [] without the directory, else the reports sorted by
\* st_mtime, newest first; sorted() is stable, so reports of equal time keep
\* their glob order
list_reports(rd) ==
    IF ~rd.exists
    THEN << >>
    ELSE LET fl == rd.files
             n == Len(fl)
             rank(i) == Cardinality({j \in 1..n :
                            \/ fl[j].mtime > fl[i].mtime
                            \/ fl[j].mtime = fl[i].mtime /\ j < i}) + 1
         IN  [k \in 1..n |-> fl[CHOOSE i \in 1..n : rank(i) = k]]

\* prune_reports(keep): the reports after the first `keep` of list_reports()
\* are unlinked; an unlink that raises (the reports in `locked`) is passed
\* over and not counted.  Returns the count and leaves the directory.
prune_reports(rd, keep, locked) ==
    IF keep < 0
    THEN [deleted |-> 0, failed |-> 0, dir |-> rd]
    ELSE LET files == list_reports(rd)
         IN  IF Len(files) <= keep
             THEN [deleted |-> 0, failed |-> 0, dir |-> rd]
             ELSE LET to_delete == {files[k].name : k \in (keep + 1)..Len(files)}
                      gone == to_delete \ locked
                      keeps(f) == f.name \notin gone
                  IN  [deleted |-> Cardinality(gone),
                       failed |-> Cardinality(to_delete \cap locked),
                       dir |-> [rd EXCEPT !.files = SelectSeq(rd.files, keeps)]]

----------------------------------------------------------------------------
(* src/api/main.py.  The expected value of choose_action_and_ev is a       *)
(* probability (1/Scale) times a cost (0.5), so it is counted in units of  *)
(* 1/(2 * Scale).                                                          *)

\* get_costs() when metadata["costs"] holds the costs of the CostConfig c
\* under the keys of the API: {**default_costs, **metadata.get("costs", {})}
get_costs(c) ==
    [false_negative |-> c.FN_cost,
     false_positive |-> c.FP_cost,
     true_positive_intervention |-> c.TP_intervention_cost]

\* choose_action_and_ev(p, threshold, costs): the decision and the expected
\* value (the action text comes from metadata and is left out)
choose_action_and_ev(p, threshold, api_costs) ==
    LET cost_fn == get(api_costs, "false_negative", 10)
        cost_fp == get(api_costs, "false_positive", 2)
        cost_tp_int == get(api_costs, "true_positive_intervention", 1)
        benefit_tp == cost_fn
    IN  IF p >= threshold
        THEN [decision |-> "intervene",
              ev |-> p * (benefit_tp - cost_tp_int) + (Scale - p) * (0 - cost_fp)]
        ELSE [decision |-> "monitor",
              ev |-> p * (0 - cost_fn) + (Scale - p) * 0]

----------------------------------------------------------------------------
(* The parallel sweep of spec section 5: one worker per grid point, the    *)
(* rows gathered in the order the workers finish, then put back in         *)
(* ascending-threshold order before the selection.                         *)

\* the orders in which the workers of a grid of up to MaxGrid points can
\* finish
Orders ==
    UNION {{f \in [1..n -> 1..n] : \A i, j \in 1..n : f[i] = f[j] => i = j} :
              n \in 0..MaxGrid}

\* the orders in which n workers can finish
Perms(n) == {f \in Orders : DOMAIN f = 1..n}

\* the row a worker builds for grid point t, as the loop body of
\* sweep_thresholds does
worker_row(yt, yp, c, t) ==
    LET r == expected_value_for_threshold(yt, yp, t, c)
    IN  [threshold |-> t, expected_value |-> r.ev,
         tn |-> r.tn, fp |-> r.fp, fn |-> r.fn, tp |-> r.tp]

\* the rows in the order the workers finished
gather(yt, yp, c, step, order) ==
    [i \in 1..Len(thrs(step)) |-> worker_row(yt, yp, c, thrs(step)[order[i]])]

\* the rows sorted by ascending threshold (a stable sort: rows of equal
\* threshold keep their order)
reassemble(rows) ==
    LET n == Len(rows)
        key == [i \in 1..n |-> rows[i].threshold]
        rank(i) == Cardinality({j \in 1..n :
                       \/ key[j] < key[i]
                       \/ key[j] = key[i] /\ j < i}) + 1
    IN  [k \in 1..n |-> rows[CHOOSE i \in 1..n : rank(i) = k]]

----------------------------------------------------------------------------
(* State machine.  The functions are pure, so a run is one entry point     *)
(* called once on inputs fixed at the start; the sweep entry point is the  *)
(* sweep followed by the selection, as in scripts/run_threshold_sweep.py.  *)

\* the vectors of tests/test_decision_layer.py::test_expected_value_shapes
\* (0.1, 0.2, 0.8, 0.9 in tenths)
TestLabels == <<0, 0, 1, 1>>
TestProbs == <<1, 2, 8, 9>>

\* inputs of the evaluator and the sweep: every pair of a label vector and
\* a probability vector of the same length, the pairs of different lengths
\* (there the probabilities are all 0.5: the lengths are what matters, or
\* there are no labels, as for the batch policy), and the test vectors
Datasets ==
    {d \in SeqsUpTo(Labels, MaxLen) \X SeqsUpTo(DataProbs, MaxLen) :
        \/ Len(d[1]) = Len(d[2])
        \/ d[1] = << >>
        \/ \A i \in 1..Len(d[2]) : d[2][i] = Scale \div 2}
        \cup {<<TestLabels, TestProbs>>}

\* the counts do not depend on the order of the samples, so the script and
\* the parallel sweep are run on samples sorted by probability
Ascending(yp) == \A i \in 1..(Len(yp) - 1) : yp[i] <= yp[i + 1]

Init ==
    /\ entry \in {"policy", "tiered", "batch", "costs", "evaluator", "sweep",
                "script", "parallel", "api", "prune", "export",
                "session"}
    /\ \E d \in Datasets :
          /\ y_true = d[1]
          /\ y_prob = d[2]
          /\ entry \in {"policy", "tiered", "costs", "api", "prune", "session"}
              => d = <<(<< >>), (<< >>)>>
          /\ entry = "batch" => d[1] = << >>
          /\ entry # "batch" =>
                 \/ Len(d[1]) = Len(d[2])
                 \/ \A i \in 1..Len(d[2]) : d[2][i] = Scale \div 2
          /\ entry = "parallel" => Len(d[1]) = Len(d[2])
          /\ entry \in {"script", "parallel"} => Ascending(d[2])
          /\ entry = "export" => d = <<TestLabels, TestProbs>>
    /\ costs \in CostConfigs
    /\ entry \in {"script", "parallel"} => costs = DefaultCosts
    /\ ev_call = NoCall
    /\ curve = NoCall
    /\ best = NoCall
    /\ decision = NoCall
    /\ tiered = NoCall
    /\ batch = NoCall
    /\ from_d = NoCall
    /\ loaded = NoCall
    /\ fs = EmptyFS
    /\ run = "idle"
    /\ par = NoCall
    /\ served = NoCall
    /\ reports \in ReportDirs
    /\ entry # "prune" => reports = NoReportsDir
    /\ pruned = NoCall
    /\ last = NoCall
    /\ hist = << >>

\* decide_single_threshold(p, thr, costs)
Decide ==
    /\ entry = "policy"
    /\ decision = NoCall
    /\ \E p \in ProbGrid, thr \in ThrVals :
          decision' = [status |-> "ok", p |-> p, thr |-> thr,
                       out |-> decide_single_threshold(p, thr, costs)]
    /\ UNCHANGED <<entry, y_true, y_prob, costs, ev_call, curve, best,
                   tiered, batch, from_d, loaded, fs, run, par, served,
                   reports, pruned, last, hist>>

\* decide_tiered(p, t_low, t_high, costs_low, costs_high), with costs as
\* costs_low
DecideTiered ==
    /\ entry = "tiered"
    /\ tiered = NoCall
    /\ \E p \in ProbGrid, t_low \in ThrVals, t_high \in ThrVals,
          costs_high \in CostConfigs :
          tiered' = [status |-> "ok", p |-> p, t_low |-> t_low,
                     t_high |-> t_high, costs_high |-> costs_high,
                     out |-> decide_tiered(p, t_low, t_high, costs, costs_high)]
    /\ UNCHANGED <<entry, y_true, y_prob, costs, ev_call, curve, best,
                   decision, batch, from_d, loaded, fs, run, par, served,
                   reports, pruned, last, hist>>

\* apply_decision_batch(y_prob, thr, costs)
ApplyBatch ==
    /\ entry = "batch"
    /\ batch = NoCall
    /\ \E thr \in ThrVals :
          batch' = [status |-> "ok", thr |-> thr,
                    out |-> apply_decision_batch(y_prob, thr, costs)]
    /\ UNCHANGED <<entry, y_true, y_prob, costs, ev_call, curve, best,
                   decision, tiered, from_d, loaded, fs, run, par, served,
                   reports, pruned, last, hist>>

\* CostConfig.from_dict(d)
FromDict ==
    /\ entry = "costs"
    /\ from_d = NoCall
    /\ fs = EmptyFS
    /\ \E d \in Mappings : from_d' = [status |-> "called", d |-> d, out |-> from_dict(d)]
    /\ UNCHANGED <<entry, y_true, y_prob, costs, ev_call, curve, best,
                   decision, tiered, batch, loaded, fs, run, par, served,
                   reports, pruned, last, hist>>

\* save_costs(costs, "costs.json")
SaveCosts ==
    /\ entry = "costs"
    /\ from_d = NoCall
    /\ loaded = NoCall
    /\ fs = EmptyFS
    /\ fs' = save_costs(fs, costs, "costs.json")
    /\ UNCHANGED <<entry, y_true, y_prob, costs, ev_call, curve, best,
                   decision, tiered, batch, from_d, loaded, run, par, served,
                   reports, pruned, last, hist>>

\* load_costs("costs.json")
LoadCosts ==
    /\ entry = "costs"
    /\ from_d = NoCall
    /\ loaded = NoCall
    /\ loaded' = load_costs(fs, "costs.json")
    /\ UNCHANGED <<entry, y_true, y_prob, costs, ev_call, curve, best,
                   decision, tiered, batch, from_d, fs, run, par, served,
                   reports, pruned, last, hist>>

\* expected_value_for_threshold(y_true, y_prob, thr, costs)
Evaluate ==
    /\ entry = "evaluator"
    /\ ev_call = NoCall
    /\ \E thr \in ThrVals :
          ev_call' = [status |-> "called", thr |-> thr,
                      out |-> expected_value_for_threshold(y_true, y_prob, thr, costs)]
    /\ UNCHANGED <<entry, y_true, y_prob, costs, curve, best, decision,
                   tiered, batch, from_d, loaded, fs, run, par, served,
                   reports, pruned, last, hist>>

\* df_curve = sweep_thresholds(y_true, y_prob, costs, step)
Sweep ==
    /\ entry = "sweep"
    /\ curve = NoCall
    /\ \E step \in StepVals :
          curve' = [status |-> "called", step |-> step,
                    out |-> sweep_thresholds(y_true, y_prob, costs, step)]
    /\ UNCHANGED <<entry, y_true, y_prob, costs, ev_call, best, decision,
                   tiered, batch, from_d, loaded, fs, run, par, served,
                   reports, pruned, last, hist>>

\* summary = choose_optimal_threshold(df_curve), reached only when the sweep
\* returned a DataFrame
Choose ==
    /\ entry = "sweep"
    /\ curve # NoCall
    /\ curve.out.status = "ok"
    /\ best = NoCall
    /\ best' = choose_optimal_threshold(curve.out.rows)
    /\ UNCHANGED <<entry, y_true, y_prob, costs, ev_call, curve, decision,
                   tiered, batch, from_d, loaded, fs, run, par, served,
                   reports, pruned, last, hist>>

\* the steps of a second run of the script into the same outdir: an empty
\* grid, a zero step and the two-point grid
RerunSteps == {0 - 1, 0, Scale}

\* python -m scripts.run_threshold_sweep --step step, on the loaded vectors
\* and costs = CostConfig(); a completed run may be followed by another one
\* into the same outdir
RunThresholdSweep ==
    /\ entry = "script"
    /\ run \in {"idle", "done"}
    /\ \E step \in StepVals :
          /\ run = "done" => step \in RerunSteps
          /\ LET r == main(fs, y_true, y_prob, costs, step)
             IN  /\ run' = r.run
                 /\ curve' = [status |-> "called", step |-> step, out |-> r.df_curve]
                 /\ best' = r.summary
                 /\ fs' = r.fs
    /\ UNCHANGED <<entry, y_true, y_prob, costs, ev_call, decision, tiered,
                   batch, from_d, loaded, par, served, reports, pruned, last,
                   hist>>

\* a parallel sweep next to the sequential one on the same arguments: the
\* workers finish in the order `order`
ParallelSweep ==
    /\ entry = "parallel"
    /\ par = NoCall
    /\ \E step \in StepVals :
          /\ step # 0
          /\ arange_len(step) \in 1..MaxGrid
          /\ \E order \in Perms(arange_len(step)) :
                LET gathered == gather(y_true, y_prob, costs, step, order)
                    reassembled == reassemble(gathered)
                    sequential == sweep_thresholds(y_true, y_prob, costs, step)
                IN  par' = [status |-> "called", step |-> step, order |-> order,
                            gathered |-> gathered,
                            reassembled |-> reassembled,
                            best_gathered |-> choose_optimal_threshold(gathered),
                            best_reassembled |->
                                choose_optimal_threshold(reassembled),
                            sequential |-> sequential,
                            best_sequential |->
                                choose_optimal_threshold(sequential.rows)]
    /\ UNCHANGED <<entry, y_true, y_prob, costs, ev_call, curve, best,
                   decision, tiered, batch, from_d, loaded, fs, run, served,
                   reports, pruned, last, hist>>

\* choose_action_and_ev(p, get_threshold(), get_costs()) as /score calls it,
\* with metadata holding the threshold and the costs in use
ChooseActionAndEv ==
    /\ entry = "api"
    /\ served = NoCall
    /\ \E p \in ProbGrid, threshold \in ThrVals :
          served' = [status |-> "called", p |-> p, threshold |-> threshold,
                     out |-> choose_action_and_ev(p, threshold, get_costs(costs))]
    /\ UNCHANGED <<entry, y_true, y_prob, costs, ev_call, curve, best,
                   decision, tiered, batch, from_d, loaded, fs, run, par,
                   reports, pruned, last, hist>>

\* prune_reports(keep); the unlink of the reports in `locked` raises
PruneReports ==
    /\ entry = "prune"
    /\ pruned = NoCall
    /\ \E keep \in (0 - 1)..(MaxReports + 1),
          locked \in SUBSET {reports.files[i].name : i \in 1..Len(reports.files)} :
          LET r == prune_reports(reports, keep, locked)
          IN  /\ pruned' = [status |-> "called", keep |-> keep, locked |-> locked,
                            before |-> reports, deleted |-> r.deleted,
                            failed |-> r.failed]
              /\ reports' = r.dir
    /\ UNCHANGED <<entry, y_true, y_prob, costs, ev_call, curve, best,
                   decision, tiered, batch, from_d, loaded, fs, run, par,
                   served, last, hist>>

\* the paths the exports of one session write to, and the steps of the
\* curves they are given
ExportPaths == {"decision_curve.csv", "config.json"}
ExportSteps == {Scale \div 2, Scale}

\* plot_decision_curve(df_curve, path)
ExportPlot ==
    /\ entry = "export"
    /\ \E path \in ExportPaths, step \in ExportSteps :
          LET rows == sweep_thresholds(y_true, y_prob, costs, step).rows
          IN  /\ fs' = plot_decision_curve(fs, rows, path)
              /\ last' = [status |-> "called", kind |-> "png", path |-> path,
                          rows |-> rows, over |-> fs.files[path]]
    /\ UNCHANGED <<entry, y_true, y_prob, costs, ev_call, curve, best,
                   decision, tiered, batch, from_d, loaded, run, par, served,
                   reports, pruned, hist>>

\* export_curve_csv(df_curve, path)
ExportCsv ==
    /\ entry = "export"
    /\ \E path \in ExportPaths, step \in ExportSteps :
          LET rows == sweep_thresholds(y_true, y_prob, costs, step).rows
          IN  /\ fs' = export_curve_csv(fs, rows, path)
              /\ last' = [status |-> "called", kind |-> "csv", path |-> path,
                          rows |-> rows, over |-> fs.files[path]]
    /\ UNCHANGED <<entry, y_true, y_prob, costs, ev_call, curve, best,
                   decision, tiered, batch, from_d, loaded, run, par, served,
                   reports, pruned, hist>>

\* save_costs(cfg, path), that is save_json of a dataclass
ExportCosts ==
    /\ entry = "export"
    /\ \E path \in ExportPaths, cfg \in CostConfigs :
          /\ fs' = save_costs(fs, cfg, path)
          /\ last' = [status |-> "called", kind |-> "json", path |-> path,
                      cfg |-> cfg, over |-> fs.files[path]]
    /\ UNCHANGED <<entry, y_true, y_prob, costs, ev_call, curve, best,
                   decision, tiered, batch, from_d, loaded, run, par, served,
                   reports, pruned, hist>>

\* the vectors and steps handed to the sweeps of one session
SessionData == {<<TestLabels, TestProbs>>, <<(<<1>>), (<<Scale>>)>>}
SessionSteps == {Scale \div 2, Scale}

\* one more sweep_thresholds(y_true, y_prob, costs, step) in the session
SessionSweep ==
    /\ entry = "session"
    /\ Len(hist) < MaxCalls
    /\ \E d \in SessionData, c \in CostConfigs, step \in SessionSteps :
          hist' = Append(hist, [fn |-> "sweep_thresholds",
                                args |-> <<d[1], d[2], c, step>>,
                                out |-> sweep_thresholds(d[1], d[2], c, step)])
    /\ UNCHANGED <<entry, y_true, y_prob, costs, ev_call, curve, best,
                   decision, tiered, batch, from_d, loaded, fs, run, par,
                   served, reports, pruned, last>>

\* one more choose_optimal_threshold(df_curve) in the session, on a curve
\* that one of its sweeps returned
SessionChoose ==
    /\ entry = "session"
    /\ Len(hist) < MaxCalls
    /\ \E k \in 1..Len(hist) :
          /\ hist[k].fn = "sweep_thresholds"
          /\ hist[k].out.status = "ok"
          /\ hist' = Append(hist, [fn |-> "choose_optimal_threshold",
                                   args |-> <<hist[k].out.rows>>,
                                   out |-> choose_optimal_threshold(hist[k].out.rows)])
    /\ UNCHANGED <<entry, y_true, y_prob, costs, ev_call, curve, best,
                   decision, tiered, batch, from_d, loaded, fs, run, par,
                   served, reports, pruned, last>>

Next ==
    \/ Decide
    \/ DecideTiered
    \/ ApplyBatch
    \/ FromDict
    \/ SaveCosts
    \/ LoadCosts
    \/ Evaluate
    \/ Sweep
    \/ Choose
    \/ RunThresholdSweep
    \/ ParallelSweep
    \/ ChooseActionAndEv
    \/ PruneReports
    \/ ExportPlot
    \/ ExportCsv
    \/ ExportCosts
    \/ SessionSweep
    \/ SessionChoose

Spec == Init /\ [][Next]_vars

----------------------------------------------------------------------------
(* Properties *)

EvOk == ev_call # NoCall /\ ev_call.out.status = "ok"
CurveOk == curve # NoCall /\ curve.out.status = "ok"
Rows == curve.out.rows
StepInUnit == curve # NoCall /\ curve.step \in 1..Scale
Indices == 1..Len(y_prob)

\* C1: decide_single_threshold returns "intervene" if and only if p >= thr
\* and "no_action" otherwise; p = thr yields "intervene".
C1_InterveneIffAtLeastThr ==
    decision # NoCall =>
        /\ decision.out.action \in {"intervene", "no_action"}
        /\ decision.out.action = "intervene" <=> decision.p >= decision.thr

C1_TieIntervenes ==
    /\ decision # NoCall
    /\ decision.p = decision.thr
    /\ decision.out.action = "intervene"

\* C2: whenever the label and probability vectors have equal length, the four
\* counts returned by the evaluator, and those of every row of a sweep, add up
\* to the number of samples.
C2_CountsPartitionSample ==
    /\ EvOk =>
         ev_call.out.tn + ev_call.out.fp + ev_call.out.fn + ev_call.out.tp
             = Len(y_true)
    /\ CurveOk =>
         \A i \in 1..Len(Rows) :
             Rows[i].tn + Rows[i].fp + Rows[i].fn + Rows[i].tp = Len(y_true)

C2_MixedOutcomes ==
    /\ EvOk
    /\ Len(y_true) = Len(y_prob)
    /\ ev_call.out.fp >= 1
    /\ ev_call.out.fn >= 1

\* C3: the evaluator predicts 1 for sample i exactly when y_prob[i] >= thr,
\* counts tn, fp, fn, tp against y_true, and returns the expected value
\* -(tp*TP_intervention_cost + fp*FP_cost + fn*FN_cost + tn*TN_cost); on
\* y_true = [0,0,1,1], y_prob = [0.1,0.2,0.8,0.9], thr = 0.5 and the default
\* costs the counts are (2,0,0,2) and the expected value is -1.0.
C3_EvaluatorFormula ==
    EvOk =>
        LET o == ev_call.out
            churn == {i \in Indices : y_prob[i] >= ev_call.thr}
            stay == Indices \ churn
        IN  /\ o.tp = Cardinality({i \in churn : y_true[i] = 1})
            /\ o.fp = Cardinality({i \in churn : y_true[i] = 0})
            /\ o.fn = Cardinality({i \in stay : y_true[i] = 1})
            /\ o.tn = Cardinality({i \in stay : y_true[i] = 0})
            /\ o.ev = 0 - (o.tp * costs.TP_intervention_cost
                           + o.fp * costs.FP_cost
                           + o.fn * costs.FN_cost
                           + o.tn * costs.TN_cost)
            /\ (/\ y_true = TestLabels
                /\ y_prob = TestProbs
                /\ ev_call.thr = Scale \div 2
                /\ costs = DefaultCosts)
                   => <<o.tn, o.fp, o.fn, o.tp, o.ev>> = <<2, 0, 0, 2, 0 - 2>>

C3_TestVectorEvaluated ==
    /\ EvOk
    /\ y_true = TestLabels
    /\ y_prob = TestProbs
    /\ ev_call.thr = Scale \div 2
    /\ costs = DefaultCosts
    /\ ev_call.out.ev = 0 - 2

\* C4: the selected summary is a row of the curve (all six fields of one
\* row) whose expected value is at least that of every row, and among the
\* rows with that expected value it has the smallest threshold.
C4_FirstGlobalMax ==
    best.status = "ok" =>
        /\ \E i \in 1..Len(Rows) :
               /\ Rows[i].threshold = best.threshold
               /\ Rows[i].expected_value = best.expected_value
               /\ Rows[i].tn = best.tn
               /\ Rows[i].fp = best.fp
               /\ Rows[i].fn = best.fn
               /\ Rows[i].tp = best.tp
        /\ \A j \in 1..Len(Rows) :
               /\ Rows[j].expected_value <= best.expected_value
               /\ Rows[j].expected_value = best.expected_value
                      => best.threshold <= Rows[j].threshold

C4_InteriorTiedMax ==
    /\ best.status = "ok"
    /\ \E j, k \in 1..Len(Rows) :
           /\ Rows[j].threshold > best.threshold
           /\ Rows[j].expected_value = best.expected_value
           /\ Rows[k].threshold < best.threshold
           /\ Rows[k].expected_value < best.expected_value

\* C5: for every step in (0, 1] the sweep returns floor(1.0 / step) + 1 rows.
C5_RowCount ==
    (CurveOk /\ StepInUnit) => Len(Rows) = (Scale \div curve.step) + 1

\* C6: for every step in (0, 1] the first row of the curve has threshold 0.0
\* and no row has a threshold greater than 1.0.
C6_GridWithinUnitInterval ==
    (CurveOk /\ StepInUnit) =>
        /\ Len(Rows) >= 1
        /\ Rows[1].threshold = 0
        /\ \A i \in 1..Len(Rows) : Rows[i].threshold <= Scale

\* C7: in every curve the thresholds are strictly ascending from one row to
\* the next, so no threshold appears twice.
C7_StrictlyAscending ==
    CurveOk =>
        /\ \A i \in 1..(Len(Rows) - 1) : Rows[i].threshold < Rows[i + 1].threshold
        /\ \A i, j \in 1..Len(Rows) :
               Rows[i].threshold = Rows[j].threshold => i = j

C7_SeveralRows ==
    /\ CurveOk
    /\ Len(Rows) >= 3
    /\ curve.step > 1

\* C8 as stated: at thr = 0 the counts satisfy tn = 0 and fp = 0; at a
\* threshold above the maximum probability they satisfy fn = 0 and tp = 0.
C8_BoundaryAsStated ==
    EvOk =>
        /\ ev_call.thr = 0 => ev_call.out.tn = 0 /\ ev_call.out.fp = 0
        /\ (\A i \in Indices : y_prob[i] < ev_call.thr)
               => ev_call.out.fn = 0 /\ ev_call.out.tp = 0

\* C8 amended: at thr = 0 every sample is predicted churn, so no sample is
\* counted as a negative prediction (tn = 0 and fn = 0); at a threshold above
\* the maximum probability every sample is predicted no-churn, so no sample
\* is counted as a positive prediction (fp = 0 and tp = 0).
C8_Boundary ==
    EvOk =>
        /\ ev_call.thr = 0 => ev_call.out.tn = 0 /\ ev_call.out.fn = 0
        /\ (\A i \in Indices : y_prob[i] < ev_call.thr)
               => ev_call.out.fp = 0 /\ ev_call.out.tp = 0

C8_AllPredictedChurn ==
    /\ EvOk
    /\ ev_call.thr = 0
    /\ ev_call.out.fp >= 1
    /\ ev_call.out.tp >= 1

\* C9: sweeping an empty dataset and selecting the optimum fails with an
\* error: no curve rows and no optimum are returned from zero samples.
C9_EmptyDatasetFails ==
    (entry = "sweep" /\ y_true = << >> /\ y_prob = << >>) =>
        /\ ~(CurveOk /\ Len(Rows) > 0)
        /\ best.status # "ok"

\* C10: for every step outside (0, 1] the sweep produces no grid points and
\* the selection on its result fails instead of returning an optimum.
C10_StepOutsideUnitFails ==
    (curve # NoCall /\ ~StepInUnit) =>
        /\ CurveOk => Len(Rows) = 0
        /\ best.status # "ok"

\* C11: choose_optimal_threshold on a curve with zero rows raises the error
\* ValueError "df_curve is empty" and returns no result.
C11_EmptyCurveRaises ==
    (CurveOk /\ Len(Rows) = 0 /\ best # NoCall) =>
        /\ best.status = "error"
        /\ best.error = "ValueError: df_curve is empty"

C11_EmptyCurveSelected ==
    /\ CurveOk
    /\ Len(Rows) = 0
    /\ best.status = "error"

\* C12: when the label and probability vectors differ in length the evaluator
\* fails with an error and returns no (EV, counts) pair, and a sweep over the
\* same vectors whose grid has a first point fails there with that error and
\* returns no curve.
C12_LengthMismatchFails ==
    Len(y_true) # Len(y_prob) =>
        /\ ev_call # NoCall =>
               /\ ev_call.out.status = "error"
               /\ ev_call.out.error = "ValueError"
        /\ (curve # NoCall /\ curve.step # 0 /\ arange_len(curve.step) >= 1) =>
               /\ curve.out.status = "error"
               /\ curve.out.error = "ValueError"
               /\ best = NoCall

C12_MismatchedSweepFailed ==
    /\ Len(y_true) # Len(y_prob)
    /\ Len(y_true) >= 1
    /\ Len(y_prob) >= 1
    /\ StepInUnit
    /\ curve.out.status = "error"

\* C13: on vectors of equal length the evaluator does not fail when only one
\* class occurs among the labels or among the predictions; it returns all
\* four counts, and the counts of the absent class are 0.
C13_SingleClassZeroFilled ==
    (ev_call # NoCall /\ Len(y_true) = Len(y_prob)) =>
        /\ ev_call.out.status = "ok"
        /\ (\A i \in Indices : y_true[i] = 0)
               => ev_call.out.fn = 0 /\ ev_call.out.tp = 0
        /\ (\A i \in Indices : y_true[i] = 1)
               => ev_call.out.tn = 0 /\ ev_call.out.fp = 0
        /\ (\A i \in Indices : y_prob[i] < ev_call.thr)
               => ev_call.out.fp = 0 /\ ev_call.out.tp = 0
        /\ (\A i \in Indices : y_prob[i] >= ev_call.thr)
               => ev_call.out.tn = 0 /\ ev_call.out.fn = 0

C13_OnlyChurnersAllCaught ==
    /\ EvOk
    /\ Len(y_true) >= 2
    /\ \A i \in Indices : y_true[i] = 1
    /\ ev_call.out.tp = Len(y_true)

\* C14: the expected value returned by decide_single_threshold is
\* -TP_intervention_cost when the action is "intervene" and 0.0 when it is
\* "no_action", whatever p, FN_cost, FP_cost and TN_cost are.
C14_UnitExpectedValue ==
    decision # NoCall =>
        /\ decision.out.action = "intervene"
               => decision.out.ev = 0 - costs.TP_intervention_cost
        /\ decision.out.action = "no_action" => decision.out.ev = 0

C14_InterveneAboveThr ==
    /\ decision # NoCall
    /\ decision.p > decision.thr
    /\ costs = AltCosts
    /\ decision.out.ev = 0 - AltCosts.TP_intervention_cost

\* C15: for t_low <= t_high, decide_tiered returns "expensive_intervention"
\* with ev = -costs_high.TP_intervention_cost when p >= t_high,
\* "cheap_intervention" with ev = -costs_low.TP_intervention_cost when
\* t_low <= p < t_high, and "no_action" with ev = 0.0 when p < t_low.
C15_TieredBands ==
    (tiered # NoCall /\ tiered.t_low <= tiered.t_high) =>
        /\ tiered.p >= tiered.t_high =>
               tiered.out = [action |-> "expensive_intervention",
                             ev |-> 0 - tiered.costs_high.TP_intervention_cost]
        /\ (tiered.t_low <= tiered.p /\ tiered.p < tiered.t_high) =>
               tiered.out = [action |-> "cheap_intervention",
                             ev |-> 0 - costs.TP_intervention_cost]
        /\ tiered.p < tiered.t_low =>
               tiered.out = [action |-> "no_action", ev |-> 0]

C15_MiddleBand ==
    /\ tiered # NoCall
    /\ tiered.t_low < tiered.p
    /\ tiered.p < tiered.t_high
    /\ tiered.costs_high # costs
    /\ tiered.out.action = "cheap_intervention"

\* C16: apply_decision_batch returns one row per input probability, in the
\* input order, and row i carries the action and ev that
\* decide_single_threshold gives for probs[i], ties included.
C16_BatchMatchesSingle ==
    batch # NoCall =>
        /\ Len(batch.out) = Len(y_prob)
        /\ \A i \in 1..Len(y_prob) :
               /\ batch.out[i].prob = y_prob[i]
               /\ batch.out[i].action
                      = decide_single_threshold(y_prob[i], batch.thr, costs).action
               /\ batch.out[i].ev
                      = decide_single_threshold(y_prob[i], batch.thr, costs).ev

C16_BatchWithTie ==
    /\ batch # NoCall
    /\ Len(y_prob) >= 2
    /\ y_prob[1] = batch.thr
    /\ y_prob[2] < batch.thr
    /\ batch.out[1].action = "intervene"
    /\ batch.out[2].action = "no_action"

\* C17: CostConfig.from_dict never fails on a mapping with missing or extra
\* keys: each of the four fields takes the mapping's value when its key is
\* present and its default (5.0, 1.0, 0.5, 0.0) when it is absent, and other
\* keys have no effect on the result.
C17_FromDictDefaults ==
    from_d # NoCall =>
        /\ from_d.out.status = "ok"
        /\ DOMAIN from_d.out.cfg = CostFields
        /\ \A k \in CostFields :
               from_d.out.cfg[k] = IF k \in DOMAIN from_d.d
                                   THEN from_d.d[k]
                                   ELSE DefaultCosts[k]
        /\ from_d.out = from_dict([k \in DOMAIN from_d.d \cap CostFields |-> from_d.d[k]])

C17_MissingAndExtraKeys ==
    /\ from_d # NoCall
    /\ "currency" \in DOMAIN from_d.d
    /\ "FN_cost" \notin DOMAIN from_d.d
    /\ "TP_intervention_cost" \in DOMAIN from_d.d
    /\ from_d.out.status = "ok"
    /\ from_d.out.cfg.FN_cost = DefaultCosts.FN_cost

\* C18: saving a CostConfig with save_costs and reloading it with load_costs
\* from the same path yields a CostConfig equal to it in all four fields.
C18_CostsRoundTrip ==
    (entry = "costs" /\ loaded # NoCall /\ fs.files["costs.json"] # Absent) =>
        /\ loaded.status = "ok"
        /\ \A k \in CostFields : loaded.cfg[k] = costs[k]

C18_AltCostsReloaded ==
    /\ entry = "costs"
    /\ loaded # NoCall
    /\ loaded.status = "ok"
    /\ costs = AltCosts
    /\ loaded.cfg.TP_intervention_cost = AltCosts.TP_intervention_cost

\* C19: after a completed run of the sweep script, config.json holds exactly
\* the row that choose_optimal_threshold selected from that run's curve
\* (threshold, expected_value, tn, fp, fn, tp) and exactly the four costs of
\* the CostConfig used for that run's sweep, and costs.json holds the same
\* four costs.
C19_ConfigHoldsOptimumAndCosts ==
    run = "done" =>
        LET config == fs.files["config.json"].text
            decided == json_load(config.decision)
            saved == json_load(config.costs)
        IN  /\ best.status = "ok"
            /\ decided = [threshold |-> best.threshold,
                          expected_value |-> best.expected_value,
                          tn |-> best.tn, fp |-> best.fp,
                          fn |-> best.fn, tp |-> best.tp]
            /\ \E i \in 1..Len(Rows) :
                   /\ \A k \in DOMAIN decided : Rows[i][k] = decided[k]
                   /\ \A j \in 1..Len(Rows) :
                          Rows[j].expected_value <= Rows[i].expected_value
            /\ saved = asdict(costs)
            /\ \A i \in 1..Len(Rows) :
                   Rows[i].expected_value
                       = 0 - (Rows[i].tp * saved["TP_intervention_cost"]
                              + Rows[i].fp * saved["FP_cost"]
                              + Rows[i].fn * saved["FN_cost"]
                              + Rows[i].tn * saved["TN_cost"])
            /\ json_load(fs.files["costs.json"].text) = saved

C19_RunCompleted ==
    /\ run = "done"
    /\ Len(y_true) >= 2
    /\ best.threshold > 0
    /\ best.tp >= 1
    /\ best.tn >= 1
    /\ fs.files["config.json"] # Absent
    /\ fs.files["costs.json"] # Absent

\* C20: when the grid points of a sweep are evaluated by parallel workers in
\* any order and the rows are reassembled in ascending-threshold order, the
\* curve and the optimum selected from it are those of the sequential
\* sweep_thresholds followed by choose_optimal_threshold; selecting from the
\* rows as gathered gives the same expected value, and can give another row
\* only when several rows tie for the maximum.
C20_ReassembledEqualsSequential ==
    par # NoCall =>
        /\ par.sequential.status = "ok"
        /\ par.reassembled = par.sequential.rows
        /\ par.best_reassembled = par.best_sequential
        /\ par.best_gathered.expected_value = par.best_sequential.expected_value
        /\ par.best_gathered # par.best_sequential =>
               \E i, j \in 1..Len(par.gathered) :
                   /\ i # j
                   /\ par.gathered[i].expected_value = par.best_sequential.expected_value
                   /\ par.gathered[j].expected_value = par.best_sequential.expected_value

C20_UnorderedSelectionDiffers ==
    /\ par # NoCall
    /\ par.gathered # par.reassembled
    /\ par.best_gathered.threshold > par.best_sequential.threshold
    /\ par.best_reassembled = par.best_sequential

\* C23: every row of the curve holds, for its own threshold, exactly the
\* expected value and the counts that expected_value_for_threshold returns
\* for that threshold on the same vectors and costs.
C23_RowIsEvaluatorAtItsThreshold ==
    CurveOk =>
        \A i \in 1..Len(Rows) :
            LET r == expected_value_for_threshold(y_true, y_prob,
                                                  Rows[i].threshold, costs)
            IN  /\ r.status = "ok"
                /\ Rows[i].expected_value = r.ev
                /\ Rows[i].tn = r.tn /\ Rows[i].fp = r.fp
                /\ Rows[i].fn = r.fn /\ Rows[i].tp = r.tp

C23_RowsWithDifferentCounts ==
    /\ CurveOk
    /\ Len(Rows) >= 3
    /\ Rows[1].tp > Rows[2].tp
    /\ Rows[2].fp > Rows[3].fp

C25_SameClosedLowerBound ==
    EvOk =>
        LET rows == apply_decision_batch(y_prob, ev_call.thr, costs)
        IN  /\ \A i \in Indices :
                   y_pred(y_prob, ev_call.thr)[i] = 1
                       <=> decide_single_threshold(y_prob[i], ev_call.thr,
                                                   costs).action = "intervene"
            /\ ev_call.out.tp + ev_call.out.fp
                   = Cardinality({i \in 1..Len(rows) :
                                     rows[i].action = "intervene"})

C25_TieCountedByBoth ==
    /\ EvOk
    /\ Len(y_prob) >= 2
    /\ y_prob[1] = ev_call.thr
    /\ y_prob[2] < ev_call.thr
    /\ ev_call.out.tp + ev_call.out.fp = 1

\* C27: on a fixed dataset the counts are monotone in the threshold: for
\* t1 <= t2, tp and fp do not grow and fn and tn do not shrink, and tp + fn
\* (the churners) and tn + fp (the non-churners) are the same at every
\* threshold; in particular for the rows of a sweep.
C27_CountsMonotoneInThreshold ==
    /\ EvOk =>
           \A t2 \in ThrVals :
               ev_call.thr <= t2 =>
                   LET a == ev_call.out
                       b == expected_value_for_threshold(y_true, y_prob, t2, costs)
                   IN  /\ a.tp >= b.tp /\ a.fp >= b.fp
                       /\ a.fn <= b.fn /\ a.tn <= b.tn
                       /\ a.tp + a.fn = b.tp + b.fn
                       /\ a.tn + a.fp = b.tn + b.fp
                       /\ a.tp + a.fn = CellCount(y_true, y_true, 1, 1)
                       /\ a.tn + a.fp = CellCount(y_true, y_true, 0, 0)
    /\ CurveOk =>
           \A i, j \in 1..Len(Rows) :
               Rows[i].threshold <= Rows[j].threshold =>
                   /\ Rows[i].tp >= Rows[j].tp /\ Rows[i].fp >= Rows[j].fp
                   /\ Rows[i].fn <= Rows[j].fn /\ Rows[i].tn <= Rows[j].tn
                   /\ Rows[i].tp + Rows[i].fn = Rows[j].tp + Rows[j].fn
                   /\ Rows[i].tn + Rows[i].fp = Rows[j].tn + Rows[j].fp

C27_CountsMoveAlongTheCurve ==
    /\ CurveOk
    /\ Len(Rows) >= 3
    /\ Rows[1].tp > Rows[3].tp
    /\ Rows[1].fp > Rows[3].fp
    /\ Rows[1].fn < Rows[3].fn
    /\ Rows[1].tn < Rows[3].tn

\* C28: a threshold at or below every probability gives tn = 0, fn = 0,
\* tp = the number of label-1 samples and fp = the number of label-0
\* samples; a threshold above every probability gives tp = 0, fp = 0,
\* fn = the number of label-1 samples and tn = the number of label-0
\* samples; a sample of probability exactly 1.0 is predicted churn at
\* thr = 1.0.
C28_BoundaryCounts ==
    EvOk =>
        LET ones == Cardinality({i \in 1..Len(y_true) : y_true[i] = 1})
            zeros == Cardinality({i \in 1..Len(y_true) : y_true[i] = 0})
            o == ev_call.out
        IN  /\ (\A i \in Indices : ev_call.thr <= y_prob[i]) =>
                   o.tn = 0 /\ o.fn = 0 /\ o.tp = ones /\ o.fp = zeros
            /\ (\A i \in Indices : ev_call.thr > y_prob[i]) =>
                   o.tp = 0 /\ o.fp = 0 /\ o.fn = ones /\ o.tn = zeros
            /\ ev_call.thr = Scale =>
                   o.tp + o.fp >= Cardinality({i \in Indices : y_prob[i] = Scale})

C28_CertainChurnerAtOne ==
    /\ EvOk
    /\ ev_call.thr = Scale
    /\ Len(y_prob) >= 2
    /\ y_prob[1] = Scale
    /\ y_prob[2] = Scale
    /\ y_true = <<0, 1>>
    /\ ev_call.out.tp = 1
    /\ ev_call.out.fp = 1

\* C30: choose_action_and_ev returns decision "intervene" exactly when
\* decide_single_threshold(p, threshold, costs) returns "intervene", and its
\* expected value equals the policy's ev for the same p, threshold and costs
\* (the policy's ev is in units of 0.5, the API's in units of 1/(2 * Scale)).
C30_ApiMatchesPolicy ==
    served # NoCall =>
        LET d == decide_single_threshold(served.p, served.threshold, costs)
        IN  /\ served.out.decision = "intervene" <=> d.action = "intervene"
            /\ served.out.ev = Scale * d.ev

\* C26: prune_reports(keep) with keep >= 0 and n reports, when every
\* deletion succeeds, leaves exactly min(n, keep) reports, each at least as
\* new as every deleted one, and returns n - min(n, keep); with keep < 0 it
\* deletes nothing and returns 0.
C26_PruneKeepsNewest ==
    pruned # NoCall =>
        LET before == {pruned.before.files[i] : i \in 1..Len(pruned.before.files)}
            after == {reports.files[i] : i \in 1..Len(reports.files)}
            n == Cardinality(before)
            m == IF n < pruned.keep THEN n ELSE pruned.keep
        IN  /\ (pruned.keep >= 0 /\ pruned.failed = 0) =>
                   /\ after \subseteq before
                   /\ Cardinality(after) = m
                   /\ Len(reports.files) = m
                   /\ \A k \in after, d \in before \ after : k.mtime >= d.mtime
                   /\ pruned.deleted = n - m
            /\ pruned.keep < 0 =>
                   /\ reports = pruned.before
                   /\ pruned.deleted = 0

C26_OldestTwoDeleted ==
    /\ pruned # NoCall
    /\ pruned.keep = 1
    /\ pruned.failed = 0
    /\ Len(pruned.before.files) = 3
    /\ pruned.before.files[1].mtime < pruned.before.files[2].mtime
    /\ pruned.before.files[3].mtime < pruned.before.files[1].mtime
    /\ pruned.deleted = 2
    /\ Len(reports.files) = 1
    /\ reports.files[1].name = 2

\* C29: a run of the sweep script in which sweep_thresholds or
\* choose_optimal_threshold fails creates or modifies none of the four
\* artifacts: the files of an earlier run keep their content, and without an
\* earlier run there are none.
C29_FailedRunWritesNoArtifact ==
    [][(RunThresholdSweep /\ run' = "failed") => fs'.files = fs.files]_vars

C29_FailedAfterCompletedRun ==
    /\ entry = "script"
    /\ run = "failed"
    /\ best.status = "error"
    /\ fs.files["decision_curve.csv"] # Absent
    /\ fs.files["config.json"] # Absent

\* C22: after any sequence of exports (plot, curve CSV, JSON) the file at
\* the path of the most recent export holds exactly what that export was
\* given, whatever was at the path before; the export has made the parent
\* directory, and an existing file or directory does not make it fail.
C22_LastWriteWins ==
    last # NoCall =>
        LET f == fs.files[last.path]
        IN  /\ fs.outdir
            /\ last.kind = "png" =>
                   /\ f.kind = "png"
                   /\ Len(f.x) = Len(last.rows) /\ Len(f.y) = Len(last.rows)
                   /\ \A i \in 1..Len(last.rows) :
                          /\ f.x[i] = last.rows[i].threshold
                          /\ f.y[i] = last.rows[i].expected_value
            /\ last.kind = "csv" =>
                   /\ f.kind = "csv"
                   /\ Len(f.lines) = Len(last.rows)
                   /\ \A i \in 1..Len(last.rows) :
                          [k \in 1..6 |-> parse_num(f.lines[i][k])]
                              = <<last.rows[i].threshold,
                                  last.rows[i].expected_value,
                                  last.rows[i].tn, last.rows[i].fp,
                                  last.rows[i].fn, last.rows[i].tp>>
            /\ last.kind = "json" =>
                   /\ f.kind = "json"
                   /\ json_load(f.text) = asdict(last.cfg)

C22_JsonOverCsv ==
    /\ last # NoCall
    /\ last.kind = "json"
    /\ last.over.kind = "csv"
    /\ fs.files[last.path].kind = "json"
    /\ \E p \in ExportPaths : p # last.path /\ fs.files[p].kind = "png"

====
